---------------------------- MODULE Spec2Model ----------------------------
(***************************************************************************)
(* Pyrseas, pyrseas/dbobject/cast.py: the Cast object and the CastDict     *)
(* collection (from_map, to_map, create, get_implied_deps, _diff_map),     *)
(* and the pipeline that runs them: a desired-state document is loaded,    *)
(* diffed against the current catalog, and the statement groups are        *)
(* ordered and flattened.                                                  *)
(*                                                                         *)
(* Python strings are sequences of one-character strings, so that slicing, *)
(* upper(), lower(), find() and rstrip() are computed, not assumed.        *)
(* An object or a mapping is a function from attribute names to values;    *)
(* hasattr(o, a) is  a \in DOMAIN o.                                       *)
(***************************************************************************)
EXTENDS Integers, Sequences, FiniteSets, TLC

VARIABLES pc, db, inmap, newdb, stmts, order, out, err

vars == <<pc, db, inmap, newdb, stmts, order, out, err>>

---------------------------------------------------------------------------
(* Bounds of the model *)

\* most casts of one collection (the catalog's, the document's)
MaxCasts == 2

\* most entries of a document whose keys are drawn from KeyShapes
MaxKeys == 1

---------------------------------------------------------------------------
(* Python string operations used by cast.py *)

LowerLetters ==
  <<"a","b","c","d","e","f","g","h","i","j","k","l","m",
    "n","o","p","q","r","s","t","u","v","w","x","y","z">>

UpperLetters ==
  <<"A","B","C","D","E","F","G","H","I","J","K","L","M",
    "N","O","P","Q","R","S","T","U","V","W","X","Y","Z">>

\* the characters of the strings of the model, in ASCII order
Ascii ==
  <<" ", "(", ")", ".", "1", "2">> \o UpperLetters \o <<"[", "]">> \o LowerLetters

Chars == {Ascii[i] : i \in DOMAIN Ascii}

\* the upper-case form of every character
UpperOf ==
  [c \in Chars |->
     IF \E k \in DOMAIN LowerLetters : LowerLetters[k] = c
     THEN UpperLetters[CHOOSE k \in DOMAIN LowerLetters : LowerLetters[k] = c]
     ELSE c]

\* the lower-case form of every character
LowerOf ==
  [c \in Chars |->
     IF \E k \in DOMAIN UpperLetters : UpperLetters[k] = c
     THEN LowerLetters[CHOOSE k \in DOMAIN UpperLetters : UpperLetters[k] = c]
     ELSE c]

\* str.upper()
upper(s) == [i \in 1..Len(s) |-> UpperOf[s[i]]]

\* str.lower()
lower(s) == [i \in 1..Len(s) |-> LowerOf[s[i]]]

\* s[lo:hi] for 0 <= lo and 0 <= hi (Python clamps both to len(s))
slice(s, lo, hi) ==
  LET h == IF hi > Len(s) THEN Len(s) ELSE hi
  IN IF lo >= h THEN <<>> ELSE SubSeq(s, lo + 1, h)

\* s.startswith(p)
startswith(s, p) == Len(p) <= Len(s) /\ SubSeq(s, 1, Len(p)) = p

\* s.rfind(sub) in the place of s.find(sub): the last occurrence
find_last(s, sub) ==
  LET hits == {i \in 0..(Len(s) - Len(sub)) : slice(s, i, i + Len(sub)) = sub}
  IN IF hits = {} THEN -1
     ELSE CHOOSE i \in hits : \A j \in hits : i >= j

\* s.find(sub): the 0-based index of the first occurrence, -1 when none
find(s, sub) ==
  LET hits == {i \in 0..(Len(s) - Len(sub)) : slice(s, i, i + Len(sub)) = sub}
  IN IF hits = {} THEN -1
     ELSE CHOOSE i \in hits : \A j \in hits : i <= j

\* s with nothing stripped
rstrip_nothing(s, chars) == s

\* s.rstrip(chars)
RECURSIVE rstrip(_, _)
rstrip(s, chars) ==
  IF s # <<>> /\ s[Len(s)] \in chars
  THEN rstrip(SubSeq(s, 1, Len(s) - 1), chars)
  ELSE s

---------------------------------------------------------------------------
(* Module constants of cast.py *)

\* CONTEXTS = {'a': 'assignment', 'e': 'explicit', 'i': 'implicit'}
CONTEXTS ==
  (<<"a">> :> <<"a","s","s","i","g","n","m","e","n","t">>) @@
  (<<"e">> :> <<"e","x","p","l","i","c","i","t">>) @@
  (<<"i">> :> <<"i","m","p","l","i","c","i","t">>)

\* METHODS = {'f': 'function', 'i': 'inout', 'b': 'binary coercible'}
METHODS ==
  (<<"f">> :> <<"f","u","n","c","t","i","o","n">>) @@
  (<<"i">> :> <<"i","n","o","u","t">>) @@
  (<<"b">> :> <<"b","i","n","a","r","y"," ","c","o","e","r","c","i","b","l","e">>)

\* 'cast (' : objtype.lower() and the opening of the external key
CastPrefix == <<"c","a","s","t"," ","(">>

\* ' AS ' : the delimiter searched in key.upper()
DelimAS == <<" ","A","S"," ">>

\* ' as ' : the delimiter written by extern_key
DelimLower == <<" ","a","s"," ">>

NoErr == [exc |-> "none", what |-> "", name |-> <<>>]

KeyError(key) == [exc |-> "KeyError", what |-> "Unrecognized object type", name |-> key]

ValueError(what, name) == [exc |-> "ValueError", what |-> what, name |-> name]

AttributeError(attr) == [exc |-> "AttributeError", what |-> attr, name |-> <<>>]

UnboundLocalError(var) == [exc |-> "UnboundLocalError", what |-> var, name |-> <<>>]

---------------------------------------------------------------------------
(* Cast *)

\* Cast(source=src, target=trg)
Cast(src, trg) == [source |-> src, target |-> trg]

\* the key of a cast in its collection: keylist = ['source', 'target']
key(cast) == <<cast.source, cast.target>>

\* Cast.extern_key: '%s (%s as %s)' % (objtype.lower(), source, target)
extern_key(cast) ==
  CastPrefix \o cast.source \o DelimLower \o cast.target \o <<")">>

\* setattr for every item of a mapping: attrs overrides obj
setattrs(obj, attrs) ==
  [a \in DOMAIN obj \cup DOMAIN attrs |->
     IF a \in DOMAIN attrs THEN attrs[a] ELSE obj[a]]

\* DbObject._base_map: the attributes that are not part of the key
_base_map(cast) ==
  [a \in DOMAIN cast \ {"source", "target"} |-> cast[a]]

\* Cast.to_map: the context and method codes spelled out
to_map(cast) ==
  setattrs(_base_map(cast),
           [context |-> CONTEXTS[cast.context], method |-> METHODS[cast.method]])


---------------------------------------------------------------------------
(* SQL statements.  A statement is a record; obj is the key of the object  *)
(* it concerns, withc / asc / func / text are the clauses that vary.       *)

Stmt(op, kind, obj, withc, func, asc, text) ==
  [op |-> op, kind |-> kind, obj |-> obj, withc |-> withc, func |-> func,
   asc |-> asc, text |-> text]

\* DbObject.comment: COMMENT ON CAST (s AS t) IS '<description>' | IS NULL
comment(cast) ==
  IF "description" \in DOMAIN cast
  THEN Stmt("COMMENT", "CAST", key(cast), "", <<>>, "IS", cast.description)
  ELSE Stmt("COMMENT", "CAST", key(cast), "", <<>>, "IS NULL", <<>>)

\* the decorator @commentable: the statements of the decorated method, then
\* the comment when the object has a description
commentable(cast, stmtlist) ==
  IF "description" \in DOMAIN cast
  THEN Append(stmtlist, comment(cast))
  ELSE stmtlist

\* Cast.create testing the method before the function attribute
create_inout_first(cast) ==
  LET with_clause ==
        IF cast.method = <<"i">> THEN "WITH INOUT"
        ELSE IF "function" \in DOMAIN cast THEN "WITH FUNCTION"
        ELSE "WITHOUT FUNCTION"
      func == IF with_clause = "WITH FUNCTION" THEN cast.function ELSE <<>>
      as_clause ==
        IF cast.context = <<"a">> THEN "AS ASSIGNMENT"
        ELSE IF cast.context = <<"i">> THEN "AS IMPLICIT"
        ELSE ""
  IN commentable(cast,
       <<Stmt("CREATE", "CAST", key(cast), with_clause, func, as_clause, <<>>)>>)

\* Cast.create without its decorator
create_without_comment(cast) ==
  <<Stmt("CREATE", "CAST", key(cast),
         IF "function" \in DOMAIN cast THEN "WITH FUNCTION"
         ELSE IF cast.method = <<"i">> THEN "WITH INOUT"
         ELSE "WITHOUT FUNCTION",
         IF "function" \in DOMAIN cast THEN cast.function ELSE <<>>,
         IF cast.context = <<"a">> THEN "AS ASSIGNMENT"
         ELSE IF cast.context = <<"i">> THEN "AS IMPLICIT"
         ELSE "",
         <<>>)>>

\* Cast.create
create(cast) ==
  LET with_clause ==
        IF "function" \in DOMAIN cast THEN "WITH FUNCTION"
        ELSE IF cast.method = <<"i">> THEN "WITH INOUT"
        ELSE "WITHOUT FUNCTION"
      func == IF "function" \in DOMAIN cast THEN cast.function ELSE <<>>
      as_clause ==
        IF cast.context = <<"a">> THEN "AS ASSIGNMENT"
        ELSE IF cast.context = <<"i">> THEN "AS IMPLICIT"
        ELSE ""
  IN commentable(cast,
       <<Stmt("CREATE", "CAST", key(cast), with_clause, func, as_clause, <<>>)>>)

\* DbObject.drop: DROP CAST (s AS t)
drop(cast) == <<Stmt("DROP", "CAST", key(cast), "", <<>>, "", <<>>)>>

\* DbObject.diff_description: the comment change from self to inobj
diff_description(self, inobj) ==
  IF "description" \in DOMAIN self
  THEN IF "description" \in DOMAIN inobj
       THEN IF self.description # inobj.description
            THEN <<comment(inobj)>>
            ELSE <<>>
       ELSE <<comment(inobj)>>
  ELSE IF "description" \in DOMAIN inobj
       THEN <<comment(inobj)>>
       ELSE <<>>

\* the attribute-level diff of a cast present on both sides: a cast cannot
\* be altered in place, so a changed definition is a drop and a create; an
\* unchanged one yields the comment change only
diff_map(self, inobj) ==
  IF [a \in DOMAIN self \ {"description"} |-> self[a]]
       = [a \in DOMAIN inobj \ {"description"} |-> inobj[a]]
  THEN diff_description(self, inobj)
  ELSE drop(self) \o create(inobj)

---------------------------------------------------------------------------
(* CastDict.  A collection is a function from keys to objects; the order   *)
(* in which a loop visits it is an input of the loop.                      *)

\* d[k] = v
setitem(d, k, v) == [x \in DOMAIN d \cup {k} |-> IF x = k THEN v ELSE d[x]]

\* word[:1] without lower()
code_keeping_case(word) == slice(word, 0, 1)

\* word[:1].lower(): the catalog code of a spelled-out context or method
code(word) == lower(slice(word, 0, 1))

\* one turn of the loop of CastDict.from_map, on entry `key` of the input
\* map: the collection and the error it leaves
from_map_key(self, k, incast) ==
  IF ~startswith(k, CastPrefix) \/ find(upper(k), DelimAS) = -1
       \/ slice(k, Len(k) - 1, Len(k)) # <<")">>
  THEN [casts |-> self, err |-> KeyError(k)]
  ELSE
    LET asloc == find(upper(k), DelimAS)
        src == slice(k, 6, asloc)
        trg == slice(k, asloc + 4, Len(k) - 1)
        cast0 == Cast(src, trg)
        cast1 == setattrs(cast0, incast)
        cast2 == [cast1 EXCEPT !.context = code(cast1.context)]
        cast3 == [cast2 EXCEPT !.method = code(cast2.method)]
        name == slice(k, 5, Len(k))
    IN IF DOMAIN incast = {}
       THEN [casts |-> setitem(self, <<src, trg>>, cast0),
             err |-> ValueError("has no specification", name)]
       ELSE IF "context" \notin DOMAIN cast1
       THEN [casts |-> setitem(self, <<src, trg>>, cast1),
             err |-> ValueError("missing context", name)]
       ELSE IF "context" \notin DOMAIN cast1
       THEN [casts |-> setitem(self, <<src, trg>>, cast1),
             err |-> ValueError("missing method", name)]
       ELSE IF "method" \notin DOMAIN cast2
       THEN [casts |-> setitem(self, <<src, trg>>, cast2),
             err |-> AttributeError("method")]
       ELSE [casts |-> setitem(self, <<src, trg>>, cast3), err |-> NoErr]

\* CastDict.from_map(incasts, newdb), visiting the keys of incasts in the
\* order `keys`; the first failing entry ends the loop
RECURSIVE from_map(_, _, _)
from_map(self, incasts, keys) ==
  IF keys = <<>> THEN [casts |-> self, err |-> NoErr]
  ELSE LET r == from_map_key(self, Head(keys), incasts[Head(keys)])
       IN IF r.err # NoErr THEN r
          ELSE from_map(r.casts, incasts, Tail(keys))

\* group of one object in the mapping _diff_map returns: the new (input)
\* object or the old (catalog) object with that key
Group(side, kind, k) == <<side, kind, k>>

\* stmts[g].append(item) on a defaultdict(list)
append_to(groups, g, item) ==
  [x \in DOMAIN groups \cup {g} |->
     IF x = g
     THEN IF g \in DOMAIN groups THEN Append(groups[g], item) ELSE <<item>>
     ELSE groups[x]]

\* the first loop creating every input cast, in the catalog or not
diff_input_item_always_create(self, incasts, k) == create(incasts[k])

\* the body of the first loop of CastDict._diff_map: what is appended to
\* the group of input cast k
diff_input_item(self, incasts, k) ==
  IF k \notin DOMAIN self
  THEN create(incasts[k])
  ELSE diff_map(self[k], incasts[k])

\* the first loop of CastDict._diff_map (check input casts), visiting the
\* keys of incasts in the order `keys`
RECURSIVE diff_input(_, _, _, _)
diff_input(self, incasts, keys, groups) ==
  IF keys = <<>> THEN groups
  ELSE diff_input(self, incasts, Tail(keys),
                  append_to(groups, Group("new", "cast", Head(keys)),
                            diff_input_item(self, incasts, Head(keys))))

\* the second loop of CastDict._diff_map (check existing casts), visiting
\* the keys of self in the order `keys`; `last` is the value the variable
\* incast was left with by the first loop, <<>> when that loop never ran
RECURSIVE diff_existing(_, _, _, _, _)
diff_existing(self, incasts, keys, last, groups) ==
  IF keys = <<>> THEN [stmts |-> groups, err |-> NoErr]
  ELSE LET k == Head(keys)
           cast == self[k]
       IN IF k \in DOMAIN incasts
          THEN diff_existing(self, incasts, Tail(keys), last, groups)
          ELSE IF last = <<>>
          THEN [stmts |-> groups, err |-> UnboundLocalError("incast")]
          ELSE diff_existing(self, incasts, Tail(keys), last,
                 append_to(groups, Group("new", "cast", last[1]), drop(cast)))

\* CastDict._diff_map(incasts); inkeys and selfkeys are the orders in which
\* the two loops visit incasts and self
_diff_map(self, incasts, inkeys, selfkeys) ==
  diff_existing(self, incasts, selfkeys,
                IF inkeys = <<>> THEN <<>> ELSE <<inkeys[Len(inkeys)]>>,
                diff_input(self, incasts, inkeys, <<>>))


---------------------------------------------------------------------------
(* Dependencies *)

Public == <<"p","u","b","l","i","c">>

\* split_schema_obj: (schema, object) of a possibly qualified name, the
\* schema defaulting to public
split_schema_obj(name) ==
  LET dot == find(name, <<".">>)
  IN IF dot = -1 THEN <<Public, name>>
     ELSE <<slice(name, 0, dot), slice(name, dot + 1, Len(name))>>

\* an object as a member of a dependency set
Entity(kind, k) == <<kind, k>>

\* db._get_by_extkey('function %s' % name): the function of that external
\* key when the schema has it
has_function(schema, name) == <<Public, name>> \in schema.functions

\* Cast.get_implied_deps(db): the set of objects, or the error raised
get_implied_deps(cast, schema) ==
  LET source == split_schema_obj(cast.source)
      srckey == <<source[1], rstrip(source[2], {"[", "]"})>>
      target == split_schema_obj(cast.target)
      trgkey == <<target[1], rstrip(target[2], {"[", "]"})>>
      types == {Entity("type", k) : k \in {srckey, trgkey} \cap schema.types}
  IN IF cast.method = <<"f">>
     THEN IF "function" \notin DOMAIN cast
          THEN [deps |-> {}, err |-> AttributeError("function")]
          ELSE IF ~has_function(schema, cast.function)
          THEN [deps |-> {}, err |-> KeyError(cast.function)]
          ELSE [deps |-> types \cup {Entity("function", <<Public, cast.function>>)},
                err |-> NoErr]
     ELSE [deps |-> types, err |-> NoErr]

---------------------------------------------------------------------------
(* The diff of a whole schema: every collection's statement groups, the    *)
(* order of the groups, the flattened statement sequence.                  *)

\* the statement groups of the types and functions of the two schemas:
\* a create under the new object, a drop under the old one
other_groups(old, new) ==
  LET ids == {<<"type", k>> : k \in old.types \cup new.types}
               \cup {<<"function", k>> : k \in old.functions \cup new.functions}
      isold(e) == IF e[1] = "type" THEN e[2] \in old.types ELSE e[2] \in old.functions
      isnew(e) == IF e[1] = "type" THEN e[2] \in new.types ELSE e[2] \in new.functions
      changed == {e \in ids : isold(e) # isnew(e)}
      grp(e) == Group(IF isnew(e) THEN "new" ELSE "old", e[1], e[2])
  IN [g \in {grp(e) : e \in changed} |->
        <<<<Stmt(IF g[1] = "new" THEN "CREATE" ELSE "DROP",
                 IF g[2] = "type" THEN "TYPE" ELSE "FUNCTION",
                 g[3], "", <<>>, "", <<>>)>>>>]

\* the statements of one group, its items concatenated in order
RECURSIVE flatten(_)
flatten(items) ==
  IF items = <<>> THEN <<>> ELSE Head(items) \o flatten(Tail(items))

\* the position of every character in the character order
Ord == [c \in Chars |-> CHOOSE i \in DOMAIN Ascii : Ascii[i] = c]

\* s < t, lexicographically
RECURSIVE LexLess(_, _)
LexLess(s, t) ==
  IF t = <<>> THEN FALSE
  ELSE IF s = <<>> THEN TRUE
  ELSE IF Head(s) # Head(t) THEN Ord[Head(s)] < Ord[Head(t)]
  ELSE LexLess(Tail(s), Tail(t))

\* the external key of the object of a group
group_extkey(g) ==
  IF g[2] = "cast" THEN extern_key(Cast(g[3][1], g[3][2]))
  ELSE IF g[2] = "type" THEN <<"t","y","p","e"," ">> \o g[3][2]
  ELSE <<"f","u","n","c","t","i","o","n"," ">> \o g[3][2]

\* the dependencies of the object of a group, looked up in its own schema
group_deps(g, old, new) ==
  IF g[2] # "cast" THEN [deps |-> {}, err |-> NoErr]
  ELSE IF g[1] = "new" THEN get_implied_deps(new.casts[g[3]], new)
  ELSE get_implied_deps(old.casts[g[3]], old)

\* u must come before v: a created object after what it depends on, a
\* dropped object before what it depends on
before(u, v, old, new) ==
  \/ u[1] = "new" /\ v[1] = "new"
       /\ Entity(u[2], u[3]) \in group_deps(v, old, new).deps
  \/ u[1] = "old" /\ v[1] = "old"
       /\ Entity(v[2], v[3]) \in group_deps(u, old, new).deps

\* the least group not waiting for another, repeatedly
RECURSIVE topo_sort(_, _, _, _)
topo_sort(nodes, acc, old, new) ==
  IF nodes = {} THEN acc
  ELSE LET free == {n \in nodes : \A m \in nodes : ~before(m, n, old, new)}
           least == CHOOSE n \in free : \A m \in free \ {n} :
                      \/ LexLess(group_extkey(n), group_extkey(m))
                      \/ group_extkey(n) = group_extkey(m) /\ n[1] = "new"
       IN topo_sort(nodes \ {least}, Append(acc, least), old, new)

\* the order of the groups that hold a statement, or the error of a
\* dependency that cannot be resolved
dep_sorted(groups, old, new) ==
  LET nodes == {g \in DOMAIN groups : flatten(groups[g]) # <<>>}
      bad == {g \in nodes : group_deps(g, old, new).err # NoErr}
  IN IF bad # {}
     THEN [order |-> <<>>,
           err |-> group_deps(CHOOSE g \in bad : TRUE, old, new).err]
     ELSE [order |-> topo_sort(nodes, <<>>, old, new), err |-> NoErr]

\* the statements of the groups in order
RECURSIVE emit(_, _)
emit(groups, ord) ==
  IF ord = <<>> THEN <<>>
  ELSE flatten(groups[Head(ord)]) \o emit(groups, Tail(ord))


---------------------------------------------------------------------------
(* The inputs *)

T1 == <<"t","1">>

T2 == <<"t","2">>

T1Array == <<"t","1","[","]">>

IntT == <<"i","n","t">>

F1 == <<"f","1">>

D1 == <<"d","1">>

D2 == <<"d","2">>

\* the orders in which a loop can visit the keys of a collection
Orders(S) ==
  {o \in [1..Cardinality(S) -> S] : \A i, j \in DOMAIN o : o[i] = o[j] => i = j}

\* the mappings that give some of the attributes a value, each from its
\* set in choices
Attrs(choices) ==
  UNION {{m \in [S -> UNION {choices[a] : a \in S}] : \A a \in S : m[a] \in choices[a]}
          : S \in SUBSET DOMAIN choices}

\* the subsets of K of at most n elements
RECURSIVE UpTo(_, _)
UpTo(K, n) ==
  IF n = 0 THEN {{}}
  ELSE LET smaller == UpTo(K, n - 1)
       IN smaller \cup {S \cup {k} : S \in smaller, k \in K}

\* the collections of at most n casts with keys in ids and attributes in attrs
Catalogs(ids, attrs, n) ==
  UNION {{[k \in S |-> setattrs(Cast(k[1], k[2]), f[k])] : f \in [S -> attrs]}
          : S \in UpTo(ids, n)}

\* the documents of at most n entries with keys in keys and entries in entries
Documents(keys, entries, n) == UNION {[S -> entries] : S \in UpTo(keys, n)}

\* the document Database.to_map writes for a catalog of casts
casts_to_map(casts) ==
  [k \in {extern_key(casts[id]) : id \in DOMAIN casts} |->
     to_map(casts[CHOOSE id \in DOMAIN casts : extern_key(casts[id]) = k])]

NoSchema == [casts |-> <<>>, types |-> {}, functions |-> {}]

InitRest ==
  /\ newdb = NoSchema
  /\ stmts = <<>>
  /\ order = <<>>
  /\ out = <<>>
  /\ err = NoErr

---------------------------------------------------------------------------
(* The operations *)

\* CastDict.from_map on the casts of the input map; the other collections
\* of the desired schema are taken as given
FromMap ==
  /\ pc = "start"
  /\ \E keys \in Orders(DOMAIN inmap.casts) :
       LET r == from_map(<<>>, inmap.casts, keys)
       IN /\ newdb' = [casts |-> r.casts, types |-> inmap.types,
                       functions |-> inmap.functions]
          /\ err' = r.err
          /\ pc' = IF r.err = NoErr THEN "loaded" ELSE "failed"
  /\ UNCHANGED <<db, inmap, stmts, order, out>>

\* CastDict.diff_map, with the statement groups of the other collections
DiffMap ==
  /\ pc = "loaded"
  /\ \E inkeys \in Orders(DOMAIN newdb.casts) :
     \E selfkeys \in Orders(DOMAIN db.casts) :
       LET r == _diff_map(db.casts, newdb.casts, inkeys, selfkeys)
       IN /\ stmts' = r.stmts @@ other_groups(db, newdb)
          /\ err' = r.err
          /\ pc' = IF r.err = NoErr THEN "diffed" ELSE "failed"
  /\ UNCHANGED <<db, inmap, newdb, order, out>>

\* the dependency order of the statement groups
DepSort ==
  /\ pc = "diffed"
  /\ LET r == dep_sorted(stmts, db, newdb)
     IN /\ order' = r.order
        /\ err' = r.err
        /\ pc' = IF r.err = NoErr THEN "sorted" ELSE "failed"
  /\ UNCHANGED <<db, inmap, newdb, stmts, out>>

\* the ordered statement sequence
Emit ==
  /\ pc = "sorted"
  /\ out' = emit(stmts, order)
  /\ pc' = "done"
  /\ UNCHANGED <<db, inmap, newdb, stmts, order, err>>

Next == FromMap \/ DiffMap \/ DepSort \/ Emit


---------------------------------------------------------------------------
(* Diff of a catalog of casts against a document of casts *)

DiffIds == {<<T1, IntT>>, <<IntT, T1>>, <<T2, IntT>>}

\* the attributes of a cast of the catalog
CatalogAttrs ==
  {m \in Attrs([context |-> {<<"a">>, <<"e">>}, method |-> {<<"i">>},
                description |-> {D1}])
     : {"context", "method"} \subseteq DOMAIN m}

\* the attributes of a cast the document describes
DesiredAttrs ==
  {m \in Attrs([context |-> {<<"e">>}, method |-> {<<"i">>},
                description |-> {D1, D2}])
     : {"context", "method"} \subseteq DOMAIN m}

Init ==
  /\ pc = "start"
  /\ \E c \in Catalogs(DiffIds, CatalogAttrs, MaxCasts) :
       db = [casts |-> c, types |-> {}, functions |-> {}]
  /\ \E c \in Catalogs(DiffIds, DesiredAttrs, MaxCasts) :
       inmap = [casts |-> casts_to_map(c), types |-> {}, functions |-> {}]
  /\ InitRest

Spec == Init /\ [][Next]_vars


---------------------------------------------------------------------------
(* Loading a document whose entries have any of the attributes *)

\* a word with its first letter in upper case
title(w) == upper(slice(w, 0, 1)) \o slice(w, 1, Len(w))

AttrKeys == {extern_key(Cast(T1, IntT)), extern_key(Cast(IntT, T1))}

AttrEntries ==
  Attrs([context |-> {CONTEXTS[<<"a">>], title(CONTEXTS[<<"e">>]), upper(CONTEXTS[<<"i">>])},
         method |-> {METHODS[<<"f">>], title(METHODS[<<"i">>]), upper(METHODS[<<"b">>])},
         function |-> {F1},
         description |-> {D1}])

InitAttr ==
  /\ pc = "start"
  /\ db = NoSchema
  /\ \E d \in Documents(AttrKeys, AttrEntries, MaxCasts) :
       inmap = [casts |-> d, types |-> {}, functions |-> {<<Public, F1>>}]
  /\ InitRest

SpecAttr == InitAttr /\ [][Next]_vars

---------------------------------------------------------------------------
(* Loading a document whose keys have any shape *)

KeyShapes ==
  {p \o s \o d \o t \o x :
     p \in {CastPrefix, <<"C","a","s","t"," ","(">>, <<"c","a","s","t","(">>, <<>>},
     s \in {T1, <<>>},
     d \in {DelimAS, DelimLower, <<" ","A","s">>, <<>>},
     t \in {IntT, IntT \o <<" ","a","S"," ">> \o T1},
     x \in {<<")">>, <<>>}}

KeyEntries == {<<>>, [context |-> CONTEXTS[<<"e">>], method |-> METHODS[<<"i">>]]}

InitKey ==
  /\ pc = "start"
  /\ db = NoSchema
  /\ \E d \in Documents(KeyShapes, KeyEntries, MaxKeys) :
       inmap = [casts |-> d, types |-> {}, functions |-> {}]
  /\ InitRest

SpecKey == InitKey /\ [][Next]_vars

---------------------------------------------------------------------------
(* Writing the catalog as a document and loading it again *)

RoundIds == {<<T1, IntT>>, <<IntT, T1>>}

\* the attributes of a cast as the catalog query returns them: a function
\* exactly when the method is 'f'
RoundAttrs ==
  {m \in Attrs([context |-> DOMAIN CONTEXTS, method |-> DOMAIN METHODS,
                function |-> {F1}, description |-> {D1}])
     : /\ {"context", "method"} \subseteq DOMAIN m
       /\ "function" \in DOMAIN m <=> m.method = <<"f">>}

\* a word as an editor may respell it
respell(w, how) ==
  CASE how = "upper" -> upper(w)
    [] how = "title" -> title(w)
    [] OTHER -> w

InitRound ==
  /\ pc = "catalog"
  /\ \E c \in Catalogs(RoundIds, RoundAttrs, MaxCasts) :
       db = [casts |-> c, types |-> {}, functions |-> {<<Public, F1>>}]
  /\ inmap = NoSchema
  /\ InitRest

\* Database.to_map: the document of the catalog
ToMap ==
  /\ pc = "catalog"
  /\ inmap' = [casts |-> casts_to_map(db.casts), types |-> db.types,
               functions |-> db.functions]
  /\ pc' = "mapped"
  /\ UNCHANGED <<db, newdb, stmts, order, out, err>>

\* the document is handed on, its context and method words in some letter case
EditCase ==
  /\ pc = "mapped"
  /\ \E hc, hm \in {"same", "upper", "title"} :
       inmap' = [inmap EXCEPT !.casts =
                   [k \in DOMAIN inmap.casts |->
                      [inmap.casts[k] EXCEPT !.context = respell(@, hc),
                                             !.method = respell(@, hm)]]]
  /\ pc' = "start"
  /\ UNCHANGED <<db, newdb, stmts, order, out, err>>

NextRound == ToMap \/ EditCase \/ Next

SpecRound == InitRound /\ [][NextRound]_vars

---------------------------------------------------------------------------
(* Diff of schemas with types, functions and the casts that use them *)

OrderIds == {<<T1Array, IntT>>, <<T2, IntT>>}

OrderAttrs ==
  {[context |-> <<"e">>, method |-> <<"i">>],
   [context |-> <<"e">>, method |-> <<"f">>, function |-> F1]}

OrderTypes == {<<Public, T1>>, <<Public, T2>>}

OrderFunctions == {<<Public, F1>>}

\* the catalog holds the function of every cast by function
InitOrder ==
  /\ pc = "start"
  /\ \E c \in Catalogs(OrderIds, OrderAttrs, MaxCasts) :
     \E ts \in SUBSET OrderTypes :
     \E fs \in SUBSET OrderFunctions :
       /\ \A k \in DOMAIN c : c[k].method = <<"f">> => <<Public, c[k].function>> \in fs
       /\ db = [casts |-> c, types |-> ts, functions |-> fs]
  /\ \E c \in Catalogs(OrderIds, OrderAttrs, MaxCasts) :
     \E ts \in SUBSET OrderTypes :
     \E fs \in SUBSET OrderFunctions :
       inmap = [casts |-> casts_to_map(c), types |-> ts, functions |-> fs]
  /\ InitRest

SpecOrder == InitOrder /\ [][Next]_vars

---------------------------------------------------------------------------
(* Casts of a new schema whose types and functions may or may not exist *)

S1 == <<"s","1">>

\* 's1.t2', a name qualified by its schema
S1T2 == S1 \o <<".">> \o T2

\* a function that no schema has
F2 == <<"f","2">>

DepsIds == {<<T1Array, IntT>>, <<T2, T1>>, <<S1T2, IntT>>}

\* casts by function or not, each with or without a function attribute
DepsAttrs ==
  {m \in Attrs([context |-> {<<"e">>}, method |-> {<<"f">>, <<"i">>},
                function |-> {F1, F2}])
     : {"context", "method"} \subseteq DOMAIN m}

DepsTypes == {<<Public, T1>>, <<Public, T2>>, <<S1, T2>>}

InitDeps ==
  /\ pc = "start"
  /\ db = NoSchema
  /\ \E c \in Catalogs(DepsIds, DepsAttrs, MaxCasts) :
     \E ts \in SUBSET DepsTypes :
     \E fs \in SUBSET OrderFunctions :
       inmap = [casts |-> casts_to_map(c), types |-> ts, functions |-> fs]
  /\ InitRest

SpecDeps == InitDeps /\ [][Next]_vars

---------------------------------------------------------------------------
(* Properties of the diff *)

\* _diff_map returned its mapping
DiffReturned == pc \in {"diffed", "sorted", "done"}

\* _diff_map raised
DiffRaised == pc = "failed" /\ err.exc = "UnboundLocalError"

\* the groups of casts in the mapping and the places of their items
CastGroups == {g \in DOMAIN stmts : g[2] = "cast"}

Places == {<<g, i>> : g \in CastGroups, i \in 1..MaxCasts + MaxCasts}

Items == {p \in Places : p[2] <= Len(stmts[p[1]])}

\* what the diff owes to the cast of key k
Owed(k) ==
  IF k \notin DOMAIN db.casts THEN create(newdb.casts[k])
  ELSE IF k \notin DOMAIN newdb.casts THEN drop(db.casts[k])
  ELSE diff_map(db.casts[k], newdb.casts[k])

AllKeys == DOMAIN db.casts \cup DOMAIN newdb.casts

\* every item of the mapping is owed to a cast, as often as it is owed
ExactItems ==
  \A v \in {Owed(k) : k \in AllKeys} \cup {stmts[p[1]][p[2]] : p \in Items} :
    Cardinality({p \in Items : stmts[p[1]][p[2]] = v})
      = Cardinality({k \in AllKeys : Owed(k) = v})

\* C1: for every pair of collections, an empty desired one included,
\* _diff_map returns normally, and what it returns is exactly the create of
\* each cast only in desired, the attribute diff of each cast in both and
\* the drop of each cast only in current, each once.
C1_DiffMapReturnsExactly ==
  /\ ~DiffRaised
  /\ DiffReturned => ExactItems

\* C1, the run the claim is about: current has a cast, desired has none
C1_Case == pc = "loaded" /\ DOMAIN newdb.casts = {} /\ DOMAIN db.casts # {}

\* whenever _diff_map does return, the items are the owed ones
DiffMapExactWhenReturned == DiffReturned => ExactItems

\* C2: every statement of the mapping is in the group of the object it
\* concerns: the desired cast of that key for a create or a diff, the
\* current cast for the drop of a cast that desired lacks.
C2_GroupedByOwner ==
  DiffReturned =>
    \A p \in Items :
      LET item == stmts[p[1]][p[2]]
      IN \A i \in DOMAIN item :
           p[1] = Group(IF item[i].obj \in DOMAIN newdb.casts THEN "new" ELSE "old",
                        "cast", item[i].obj)

\* C4: the mapping does not depend on the order in which the two
\* collections are visited.
C4_OrderIndependent ==
  DiffReturned =>
    \A inkeys \in Orders(DOMAIN newdb.casts) :
    \A selfkeys \in Orders(DOMAIN db.casts) :
      _diff_map(db.casts, newdb.casts, inkeys, selfkeys).stmts
        @@ other_groups(db, newdb) = stmts


\* the entry of the document a desired cast was loaded from
Entry(k) == inmap.casts[extern_key(newdb.casts[k])]

\* the statements of the output that concern the cast of key k
About(k) == SelectSeq(out, LAMBDA st : st.kind = "CAST" /\ st.obj = k)

\* C9: a created object whose desired entry has a description has its
\* COMMENT ON statement right after its own create statement; one created
\* without a description has no comment statement.
C9_CommentFollowsCreate ==
  pc = "done" =>
    \A i \in DOMAIN out :
      (out[i].op = "CREATE" /\ out[i].kind = "CAST") =>
        LET k == out[i].obj
        IN IF "description" \in DOMAIN Entry(k)
           THEN /\ i < Len(out)
                /\ out[i + 1] = Stmt("COMMENT", "CAST", k, "", <<>>, "IS",
                                     Entry(k).description)
           ELSE \A j \in DOMAIN out :
                  ~(out[j].op = "COMMENT" /\ out[j].kind = "CAST" /\ out[j].obj = k)

\* C9, its case: a cast with a description was created while another cast
\* was dropped in the same run
C9_Reached ==
  /\ pc = "done"
  /\ \E i \in DOMAIN out : out[i].op = "DROP"
  /\ \E k \in DOMAIN newdb.casts \ DOMAIN db.casts : "description" \in DOMAIN Entry(k)
  /\ \E k \in DOMAIN newdb.casts \ DOMAIN db.casts : "description" \notin DOMAIN Entry(k)

\* the casts of both sides that differ in nothing but the description
SameButDescription(k) ==
  /\ k \in DOMAIN db.casts
  /\ k \in DOMAIN newdb.casts
  /\ [a \in DOMAIN db.casts[k] \ {"description"} |-> db.casts[k][a]]
       = [a \in DOMAIN newdb.casts[k] \ {"description"} |-> newdb.casts[k][a]]

\* the one statement a change of description asks for, or none
CommentChange(k) ==
  LET old == db.casts[k]
      new == newdb.casts[k]
  IN IF "description" \in DOMAIN new
     THEN IF "description" \in DOMAIN old /\ old.description = new.description
          THEN <<>>
          ELSE <<Stmt("COMMENT", "CAST", k, "", <<>>, "IS", new.description)>>
     ELSE IF "description" \in DOMAIN old
          THEN <<Stmt("COMMENT", "CAST", k, "", <<>>, "IS NULL", <<>>)>>
          ELSE <<>>

\* C10: for an object of both sides equal but for the description, the
\* output about it is the one COMMENT ON statement (IS '<desired>' or
\* IS NULL), nothing when the descriptions agree, and it is the whole
\* output when that object is the only one; it is never dropped or created.
C10_CommentOnlyChange ==
  pc = "done" =>
    \A k \in DOMAIN db.casts :
      SameButDescription(k) =>
        /\ About(k) = CommentChange(k)
        /\ (DOMAIN db.casts = {k} /\ DOMAIN newdb.casts = {k}) => out = CommentChange(k)

\* C10, its cases: a description added, changed and removed
C10_Reached ==
  /\ pc = "done"
  /\ \E k \in DOMAIN db.casts :
       /\ SameButDescription(k)
       /\ DOMAIN db.casts = {k} /\ DOMAIN newdb.casts = {k}
       /\ "description" \in DOMAIN db.casts[k]
       /\ "description" \in DOMAIN newdb.casts[k]
       /\ db.casts[k].description # newdb.casts[k].description
       /\ Len(out) = 1


---------------------------------------------------------------------------
(* Properties of the order of the output *)

\* the object a statement of the output concerns
Subject(st) ==
  Entity(CASE st.kind = "CAST" -> "cast" [] st.kind = "TYPE" -> "type"
           [] OTHER -> "function", st.obj)

\* C3: when A depends on B (a cast on its source type, its target type and
\* its function), B's create is before A's create if both are created, and
\* A's drop is before B's drop if both are dropped (A, a cast of the
\* catalog that the desired schema lacks).
C3_DependencyOrder ==
  pc = "done" =>
    \A i, j \in DOMAIN out :
      /\ ( /\ out[i].op = "CREATE" /\ out[i].kind = "CAST"
           /\ out[j].op = "CREATE"
           /\ Subject(out[j]) \in get_implied_deps(newdb.casts[out[i].obj], newdb).deps )
         => j < i
      /\ ( /\ out[i].op = "DROP" /\ out[i].kind = "CAST"
           /\ out[i].obj \notin DOMAIN newdb.casts
           /\ out[j].op = "DROP"
           /\ Subject(out[j]) \in get_implied_deps(db.casts[out[i].obj], db).deps )
         => i < j

\* the create half of C3 alone
CreatedAfterDependencies ==
  pc = "done" =>
    \A i, j \in DOMAIN out :
      ( /\ out[i].op = "CREATE" /\ out[i].kind = "CAST"
        /\ out[j].op = "CREATE"
        /\ Subject(out[j]) \in get_implied_deps(newdb.casts[out[i].obj], newdb).deps )
      => j < i

---------------------------------------------------------------------------
(* Properties of loading *)

\* the spellings of the delimiter that key.upper() turns into ' AS '
AsSpellings ==
  {<<" ", a, b, " ">> : a \in {"a", "A"}, b \in {"s", "S"}}

\* the places where a key of the right shape can be cut:
\* 'cast (' source <delimiter> target ')'
Cuts(k) ==
  {i \in 6..(Len(k) - 5) :
     /\ slice(k, 0, 6) = CastPrefix
     /\ slice(k, i, i + 4) \in AsSpellings
     /\ k[Len(k)] = ")"}

\* (text between 'cast (' and the first delimiter, text between that
\* delimiter and the final ')')
Identity(k) ==
  LET i == CHOOSE c \in Cuts(k) : \A d \in Cuts(k) : c <= d
  IN <<slice(k, 6, i), slice(k, i + 4, Len(k) - 1)>>

\* the three tests of the key, each on its own
StartsRight(k) == Len(k) >= 6 /\ \A i \in 1..6 : k[i] = CastPrefix[i]

HasDelimiter(k) == \E i \in 0..(Len(k) - 4) : slice(k, i, i + 4) \in AsSpellings

EndsRight(k) == Len(k) >= 1 /\ k[Len(k)] = ")"

Complete(entry) == {"context", "method"} \subseteq DOMAIN entry

\* C5: from_map raises the key error naming the key exactly when the key
\* does not start with 'cast (', or has no ' AS ' in any letter case, or
\* does not end with ')'; a key of the right shape never raises it, and its
\* identity is (text up to the delimiter, text from the delimiter to ')').
C5_MalformedKey ==
  pc # "start" =>
    /\ err.exc = "KeyError" =>
         /\ pc = "failed"
         /\ err.name \in DOMAIN inmap.casts
         /\ ~(StartsRight(err.name) /\ HasDelimiter(err.name) /\ EndsRight(err.name))
    /\ \A k \in DOMAIN inmap.casts :
         ~(StartsRight(k) /\ HasDelimiter(k) /\ EndsRight(k)) =>
           /\ pc = "failed"
           /\ (\A e \in DOMAIN inmap.casts : Complete(inmap.casts[e]))
                => err.exc = "KeyError"
    /\ pc # "failed" =>
         /\ \A k \in DOMAIN inmap.casts : Cuts(k) # {}
         /\ DOMAIN newdb.casts = {Identity(k) : k \in DOMAIN inmap.casts}

\* C5, its case: a key that starts and ends as it should and has no
\* delimiter was refused
C5_Reached ==
  /\ pc = "failed"
  /\ err.exc = "KeyError"
  /\ StartsRight(err.name)
  /\ EndsRight(err.name)

\* a key with two delimiters was loaded
TwoDelimitersLoaded ==
  /\ pc = "loaded"
  /\ \E k \in DOMAIN inmap.casts : Cardinality(Cuts(k)) > 1

\* C6: an entry of a well-formed key that has no specification, or lacks
\* context, or lacks method makes from_map fail with the ValueError naming
\* the cast and what is missing; an entry with context and without method
\* is reported as missing method.
C6_MissingAttribute ==
  pc # "start" =>
    /\ (\E k \in DOMAIN inmap.casts : ~Complete(inmap.casts[k]))
         => pc = "failed" /\ err.exc = "ValueError"
    /\ \A k \in DOMAIN inmap.casts :
         (pc = "failed" /\ err.name = slice(k, 5, Len(k))) =>
           err.what =
             IF DOMAIN inmap.casts[k] = {} THEN "has no specification"
             ELSE IF "context" \notin DOMAIN inmap.casts[k] THEN "missing context"
             ELSE "missing method"

\* C6 without the entries that have a context and no method
MissingContextReported ==
  pc # "start" =>
    \A k \in DOMAIN inmap.casts :
      (DOMAIN inmap.casts = {k} /\ "context" \notin DOMAIN inmap.casts[k]) =>
        /\ pc = "failed"
        /\ err = ValueError(IF DOMAIN inmap.casts[k] = {} THEN "has no specification"
                            ELSE "missing context", slice(k, 5, Len(k)))

\* C7: the words to_map writes for the codes of a cast, in any letter
\* case, are loaded by from_map as the same codes under the same key.
C7_RoundTrip ==
  pc \notin {"catalog", "mapped", "start"} =>
    /\ pc # "failed"
    /\ \A k \in DOMAIN db.casts :
         /\ k \in DOMAIN newdb.casts
         /\ newdb.casts[k].context = db.casts[k].context
         /\ newdb.casts[k].method = db.casts[k].method

\* C7, its case: a cast whose words were respelled in upper case is loaded
C7_Reached ==
  /\ pc = "loaded"
  /\ \E k \in DOMAIN inmap.casts :
       /\ inmap.casts[k].context = upper(inmap.casts[k].context)
       /\ inmap.casts[k].method = upper(inmap.casts[k].method)
       /\ inmap.casts[k].method = upper(METHODS[<<"b">>])

\* the CREATE CAST statement of a cast, with the clause of context explicit
CreateCast(cast, explicit_clause) ==
  Stmt("CREATE", "CAST", <<cast.source, cast.target>>,
       IF "function" \in DOMAIN cast THEN "WITH FUNCTION"
       ELSE IF cast.method = <<"i">> THEN "WITH INOUT" ELSE "WITHOUT FUNCTION",
       IF "function" \in DOMAIN cast THEN cast.function ELSE <<>>,
       CASE cast.context = <<"a">> -> "AS ASSIGNMENT"
         [] cast.context = <<"i">> -> "AS IMPLICIT"
         [] cast.context = <<"e">> -> explicit_clause,
       <<>>)

\* what create returned for the created cast of key k
Created(k) == stmts[Group("new", "cast", k)][1]

\* C8 as claimed: create returns one CREATE CAST statement, WITH FUNCTION f
\* with a function attribute, WITH INOUT without one when the method is
\* inout, WITHOUT FUNCTION otherwise, and AS ASSIGNMENT, AS IMPLICIT or
\* AS EXPLICIT by context.
C8_CreateAsClaimed ==
  DiffReturned =>
    \A k \in DOMAIN newdb.casts \ DOMAIN db.casts :
      /\ Created(k)[1] = CreateCast(newdb.casts[k], "AS EXPLICIT")
      /\ \A i \in DOMAIN Created(k) : i > 1 => Created(k)[i].op # "CREATE"

\* C8 amended: as claimed, but a cast of context explicit gets no context
\* clause at all.
C8_CreateStatement ==
  DiffReturned =>
    \A k \in DOMAIN newdb.casts \ DOMAIN db.casts :
      /\ Created(k)[1] = CreateCast(newdb.casts[k], "")
      /\ \A i \in DOMAIN Created(k) : i > 1 => Created(k)[i].op # "CREATE"

\* C8, its cases: casts created with a function attribute and method
\* inout, and without one and context explicit
C8_Reached ==
  /\ DiffReturned
  /\ \E k \in DOMAIN newdb.casts \ DOMAIN db.casts :
       /\ "function" \in DOMAIN newdb.casts[k]
       /\ newdb.casts[k].method = <<"i">>
  /\ \E k \in DOMAIN newdb.casts \ DOMAIN db.casts :
       /\ "function" \notin DOMAIN newdb.casts[k]
       /\ newdb.casts[k].context = <<"e">>


---------------------------------------------------------------------------
(* Properties of the dependencies of a cast *)

\* a type name without the brackets at its end
Base(n) ==
  LET keep == {i \in 0..Len(n) : i = 0 \/ n[i] \notin {"[", "]"}}
  IN SubSeq(n, 1, CHOOSE i \in keep : \A j \in keep : j <= i)

\* (schema, name) of a type name: the schema before the first '.', public
\* when there is none
Named(n) ==
  LET dots == {i \in 1..Len(n) : n[i] = "."}
  IN IF dots = {} THEN <<Public, Base(n)>>
     ELSE LET d == CHOOSE i \in dots : \A j \in dots : i <= j
          IN <<SubSeq(n, 1, d - 1), Base(SubSeq(n, d + 1, Len(n)))>>

\* the dependency resolver has asked every cast for its dependencies
DepsAsked == pc \in {"sorted", "done"}

DepsFailed == pc = "failed" /\ err.exc \in {"KeyError", "AttributeError"}

ByFunction(cast) == cast.method = <<"f">>

FunctionFound(cast, schema) ==
  "function" \in DOMAIN cast /\ <<Public, cast.function>> \in schema.functions

\* C11: the dependencies of a cast are its source type and its target type,
\* each looked up in the schema by (schema, name without the brackets at
\* its end) and present only when the schema has it, and, for a cast by
\* function, its function; a cast by function whose function the schema
\* does not have returns no set and stops the run, and a cast not by
\* function never fails whatever its function attribute names.
C11_ImpliedDeps ==
  /\ (DepsAsked \/ DepsFailed) =>
       \A k \in DOMAIN newdb.casts :
         LET cast == newdb.casts[k]
             r == get_implied_deps(cast, newdb)
             types == {e \in {Named(cast.source), Named(cast.target)} :
                         e \in newdb.types}
         IN /\ r.err # NoErr <=> ByFunction(cast) /\ ~FunctionFound(cast, newdb)
            /\ r.err # NoErr => pc = "failed" /\ order = <<>>
            /\ r.err = NoErr =>
                 /\ {e[2] : e \in {d \in r.deps : d[1] = "type"}} = types
                 /\ {e[2] : e \in {d \in r.deps : d[1] = "function"}} =
                      IF ByFunction(cast) THEN {<<Public, cast.function>>} ELSE {}
                 /\ \A d \in r.deps : d[1] \in {"type", "function"}
                 /\ \A d \in r.deps :
                      d[2] \in IF d[1] = "type" THEN newdb.types ELSE newdb.functions
  /\ DepsFailed =>
       \E k \in DOMAIN newdb.casts :
         /\ ByFunction(newdb.casts[k]) /\ ~FunctionFound(newdb.casts[k], newdb)
         /\ err = get_implied_deps(newdb.casts[k], newdb).err

\* C11, its cases: the resolver has asked a cast by function from an array
\* of a type the schema has to a type it does not have, and a cast not by
\* function whose function attribute names a function the schema lacks
C11_Reached ==
  /\ DepsAsked
  /\ \E k \in DOMAIN newdb.casts :
       /\ newdb.casts[k].source = T1Array
       /\ <<Public, T1>> \in newdb.types
       /\ <<Public, newdb.casts[k].target>> \notin newdb.types
       /\ ByFunction(newdb.casts[k])
  /\ \E k \in DOMAIN newdb.casts :
       /\ ~ByFunction(newdb.casts[k])
       /\ "function" \in DOMAIN newdb.casts[k]
       /\ ~FunctionFound(newdb.casts[k], newdb)
       /\ Named(newdb.casts[k].source) = <<S1, T2>>
       /\ <<S1, T2>> \in newdb.types

\* C11, the fatal case: a cast by function whose function the schema lacks
C11_Fatal ==
  /\ DepsFailed
  /\ err = KeyError(F1)


---------------------------------------------------------------------------
(* Properties of the collection after a failed load *)

\* from_map has raised
LoadFailed ==
  /\ pc = "failed"
  /\ \/ err.exc = "ValueError"
     \/ err = AttributeError("method")
     \/ err.exc = "KeyError" /\ err.name \in DOMAIN inmap.casts

\* C12: after from_map has failed on an entry the collection holds only
\* casts that have a context and a method, and holds a cast only for
\* entries that have both.
C12_NoPartialCast ==
  LoadFailed =>
    /\ \A k \in DOMAIN newdb.casts : Complete(newdb.casts[k])
    /\ \A k \in DOMAIN inmap.casts :
         Cuts(k) # {} /\ Identity(k) \in DOMAIN newdb.casts
           => Complete(inmap.casts[k])

\* a key of the wrong shape is refused before any cast is made for it
MalformedKeyLeavesNoCast ==
  LoadFailed /\ err.exc = "KeyError" =>
    \A k \in DOMAIN inmap.casts :
      err.name = k => \A c \in DOMAIN newdb.casts : key(newdb.casts[c]) # k

\* the load has failed on an entry with no specification, and on an entry
\* without a method
EmptyEntryFailed == LoadFailed /\ err.what = "has no specification"

NoMethodFailed == LoadFailed /\ err = AttributeError("method")

=============================================================================
